---- MODULE Spec2Model ----
(***************************************************************************)
(* A model of package pgroup (promise_group.go): a Group of goroutines in  *)
(* one cancellation scope, with Promise result cells.                      *)
(*                                                                         *)
(* Every goroutine started by Go / GoAndForget is a process whose program  *)
(* counter walks through the statements of its `run` closure; the caller   *)
(* of Wait is a process walking through the three statements of Wait.      *)
(* sync.WaitGroup is a counter, sync.Once is a three-state lock            *)
(* (fresh / running / done), and a context is its Err() value (Nil while   *)
(* the Done channel is open).                                              *)
(***************************************************************************)
EXTENDS Integers, Sequences, FiniteSets, TLC

\* ------------------------------------------------------------------ bounds
MaxTasks == 2   \* tasks launched on the group over its whole life
MaxVal   == 1   \* result values are 0..MaxVal (0 is the zero value of T)
MaxWaits == 2   \* sequential calls of Wait

Tasks  == 1..MaxTasks
Values == 0..MaxVal

\* ------------------------------------------------------------------ errors
Nil              == [kind |-> "nil",  id |-> 0]
Canceled         == [kind |-> "ctx",  id |-> 1]   \* context.Canceled
DeadlineExceeded == [kind |-> "ctx",  id |-> 2]   \* context.DeadlineExceeded
TaskErr(t)       == [kind |-> "task", id |-> t]   \* errors.New(...) of task t
CtxErrs          == {Canceled, DeadlineExceeded}
ZeroValue        == 0

VARIABLES
  hasParent,   \* TRUE: built by WithContext(parent); FALSE: built by New()
  parentErr,   \* parent.Err(): Nil until the parent is cancelled or times out
  ctxErr,      \* pg.ctx.Err(): Nil until pg.ctx is done
  wg,          \* pg.wg: the WaitGroup counter
  err,         \* pg.err
  errOnce,     \* pg.errOnce: "fresh" | "running" | "done"
  tpc,         \* position of every task goroutine
  kind,        \* "go" | "forget" | "none" per task
  retVal,      \* value returned by f (ZeroValue before it returns)
  retErr,      \* error returned by f (Nil before it returns)
  res,         \* Promise.res of the task's Promise
  callerPc,    \* position of the caller: "idle" | "wgWait" | "cancel" | "ret"
  waitRes,     \* the values returned by the calls of Wait, in order
  \* history
  ran,         \* number of times the body f of each task was executed
  launchedAt,  \* number of returned Wait calls when the task was launched
  claimer,     \* the first task whose closure errOnce.Do ran (0: none)
  errWrites,   \* number of assignments to pg.err
  ctxCause,    \* what closed pg.ctx.Done first: "none"|"parent"|"task"|"wait"
  ctxWait,     \* index of the Wait call whose cancel closed pg.ctx (0: none)
  firedOnAll,  \* the parent fired while every task of the group, at least one,
               \* was inside f, and no task was launched since
  firedAtRet   \* tasks whose body returned while pg.ctx was already done

vars == <<hasParent, parentErr, ctxErr, wg, err, errOnce, tpc, kind, retVal,
          retErr, res, callerPc, waitRes, ran, launchedAt, claimer, errWrites,
          ctxCause, ctxWait, firedOnAll, firedAtRet>>

hist == <<ran, launchedAt, claimer, errWrites, ctxCause, ctxWait,
          firedOnAll, firedAtRet>>

\* ------------------------------------------------------------ primitives
\* context.WithCancel(parent): the child is done at once when the parent is.
WithCancel(p) == p

\* a cancel function that does nothing
CancelCtxNoop(c) == c
\* a cancel function that closes again a context that is already done
CancelCtxOverwrites(c) == Canceled
\* cancel(): closes Done with context.Canceled unless already closed.
CancelCtx(c) == IF c = Nil THEN Canceled ELSE c

\* a child that never hears of its parent's cancellation
PropagateCancelLost(p, c) == c
\* a child that reports its parent's cancellation as its own
PropagateCancelOwnErr(p, c) == IF c = Nil THEN Canceled ELSE c
\* the parent's cancellation reaching the child: parent's Err is inherited
\* unless the child is already done.
PropagateCancel(p, c) == IF c = Nil THEN p ELSE c

\* pg.wg.Add(1)
WgAdd(n) == n + 1

\* a completion that leaves the counter as it was
WgDoneMissing(n) == n
\* pg.wg.Done()
WgDone(n) == n - 1

\* a barrier that opens one completion early
WgWaitReturnsEarly(n) == n <= 1
\* pg.wg.Wait() returns when the counter is zero
WgWaitReturns(n) == n = 0

\* errOnce.Do(fn): runs fn when the Once is fresh, returns without running
\* it when done, blocks while another goroutine is running fn.
\* a gate that lets every caller in once the previous one has left
OnceRunsAgain(o) == o # "running"
OnceRuns(o)  == o = "fresh"
\* a gate that turns callers away without waiting for the running closure
OnceSkipsEarly(o) == o # "fresh"
OnceSkips(o) == o = "done"

\* Promise.Get
Get(t) == res[t]

Launched == {t \in Tasks : tpc[t] # "idle"}
Last(s)  == s[Len(s)]

\* ------------------------------------------------------------------ Init
\* New() is WithContext(context.Background()): a parent that never fires.
Init ==
  /\ hasParent \in BOOLEAN
  /\ parentErr \in (IF hasParent THEN {Nil} \cup CtxErrs ELSE {Nil})
  /\ ctxErr = WithCancel(parentErr)
  /\ wg = 0
  /\ err = Nil
  /\ errOnce = "fresh"
  /\ tpc = [t \in Tasks |-> "idle"]
  /\ kind = [t \in Tasks |-> "none"]
  /\ retVal = [t \in Tasks |-> ZeroValue]
  /\ retErr = [t \in Tasks |-> Nil]
  /\ res = [t \in Tasks |-> ZeroValue]
  /\ callerPc = "idle"
  /\ waitRes = <<>>
  /\ ran = [t \in Tasks |-> 0]
  /\ launchedAt = [t \in Tasks |-> 0]
  /\ claimer = 0
  /\ errWrites = 0
  /\ ctxCause = IF ctxErr = Nil THEN "none" ELSE "parent"
  /\ ctxWait = 0
  /\ firedOnAll = FALSE
  /\ firedAtRet = {}

\* --------------------------------------------------------------- parent
\* The parent context is cancelled or its deadline passes.
ParentFire ==
  /\ hasParent
  /\ parentErr = Nil
  /\ \E c \in CtxErrs : parentErr' = c
  /\ firedOnAll' = (Launched # {} /\ \A t \in Launched : tpc[t] = "run")
  /\ UNCHANGED <<hasParent, ctxErr, wg, err, errOnce, tpc, kind, retVal,
                 retErr, res, callerPc, waitRes, ran, launchedAt, claimer,
                 errWrites, ctxCause, ctxWait, firedAtRet>>

\* a propagation that also records the parent's error as the group's error
PropagateStoresErr ==
  /\ parentErr # Nil
  /\ ctxErr = Nil
  /\ ctxErr' = PropagateCancel(parentErr, ctxErr)
  /\ ctxCause' = "parent"
  /\ err' = parentErr
  /\ UNCHANGED <<hasParent, parentErr, wg, errOnce, tpc, kind, retVal,
                 retErr, res, callerPc, waitRes, ran, launchedAt, claimer,
                 errWrites, ctxWait, firedOnAll, firedAtRet>>

\* The parent's cancellation closes the Done channel of pg.ctx.
Propagate ==
  /\ parentErr # Nil
  /\ ctxErr = Nil
  /\ ctxErr' = PropagateCancel(parentErr, ctxErr)
  /\ ctxCause' = "parent"
  /\ UNCHANGED <<hasParent, parentErr, wg, err, errOnce, tpc, kind, retVal,
                 retErr, res, callerPc, waitRes, ran, launchedAt, claimer,
                 errWrites, ctxWait, firedOnAll, firedAtRet>>

\* ------------------------------------------------------- Go, GoAndForget
\* The lowest unused task index is the next task: indices are launch order.
NextTask == Cardinality(Launched) + 1

\* Go and GoAndForget are called by the caller between its Wait calls, or
\* by a task body that is still running (the counter is then above zero).
CanLaunch ==
  /\ NextTask \in Tasks
  /\ \/ callerPc = "idle"
     \/ \E u \in Tasks : tpc[u] = "run"

\* pg.wg.Add(1); [p := &Promise[T]{}]; go run()
Launch(k) ==
  /\ LET t == NextTask IN
       /\ wg' = WgAdd(wg)
       /\ kind' = [kind EXCEPT ![t] = k]
       /\ res' = [res EXCEPT ![t] = ZeroValue]
       /\ tpc' = [tpc EXCEPT ![t] = "run"]
       /\ launchedAt' = [launchedAt EXCEPT ![t] = Len(waitRes)]
       /\ firedOnAll' = FALSE
  /\ UNCHANGED <<hasParent, parentErr, ctxErr, err, errOnce, retVal, retErr,
                 callerPc, waitRes, ran, claimer, errWrites, ctxCause,
                 ctxWait, firedAtRet>>

\* Go[T](pg, f): the task owns a fresh Promise
Go ==
  /\ CanLaunch
  /\ Launch("go")

\* GoAndForget(pg, f)
GoAndForget ==
  /\ CanLaunch
  /\ Launch("forget")

\* ------------------------------------------------------------- run closure
\* res, err := f(pg.ctx): the body runs once and returns its own outcome
\* (any value, with or without an error of its own), or, having seen
\* pg.ctx.Done() closed, returns pg.ctx.Err().
TaskReturn(t) ==
  /\ tpc[t] = "run"
  /\ \/ \E v \in Values, e \in {Nil, TaskErr(t)} :
          /\ (kind[t] = "forget" => v = ZeroValue)
          /\ retVal' = [retVal EXCEPT ![t] = v]
          /\ retErr' = [retErr EXCEPT ![t] = e]
     \/ /\ ctxErr # Nil
        /\ retVal' = [retVal EXCEPT ![t] = ZeroValue]
        /\ retErr' = [retErr EXCEPT ![t] = ctxErr]
  /\ ran' = [ran EXCEPT ![t] = @ + 1]
  /\ firedAtRet' = IF ctxErr = Nil THEN firedAtRet ELSE firedAtRet \cup {t}
  /\ tpc' = [tpc EXCEPT ![t] = "ret"]
  /\ UNCHANGED <<hasParent, parentErr, ctxErr, wg, err, errOnce, kind, res,
                 callerPc, waitRes, launchedAt, claimer, errWrites, ctxCause,
                 ctxWait, firedOnAll>>

\* if err != nil { pg.errOnce.Do(...) }: the Once is fresh, this goroutine
\* runs the closure.
TaskEnterOnce(t) ==
  /\ tpc[t] = "ret"
  /\ retErr[t] # Nil
  /\ OnceRuns(errOnce)
  /\ errOnce' = "running"
  /\ claimer' = IF claimer = 0 THEN t ELSE claimer
  /\ tpc' = [tpc EXCEPT ![t] = "setErr"]
  /\ UNCHANGED <<hasParent, parentErr, ctxErr, wg, err, kind, retVal, retErr,
                 res, callerPc, waitRes, ran, launchedAt, errWrites, ctxCause,
                 ctxWait, firedOnAll, firedAtRet>>

\* if err != nil { pg.errOnce.Do(...) }: the Once is done, Do returns at once.
TaskSkipOnce(t) ==
  /\ tpc[t] = "ret"
  /\ retErr[t] # Nil
  /\ OnceSkips(errOnce)
  /\ tpc' = [tpc EXCEPT ![t] = "exit"]
  /\ UNCHANGED <<hasParent, parentErr, ctxErr, wg, err, errOnce, kind, retVal,
                 retErr, res, callerPc, waitRes, hist>>

\* a closure that does not record cancellation errors
ClosureErrNoCtx(old, e) == IF e \in CtxErrs THEN old ELSE e
\* a closure that cancels without recording the error
ClosureErrDropped(old, e) == old
\* the value the closure of errOnce.Do assigns to pg.err
ClosureErr(old, e) == e

\* pg.err = err
TaskSetErr(t) ==
  /\ tpc[t] = "setErr"
  /\ err' = ClosureErr(err, retErr[t])
  /\ errWrites' = errWrites + 1
  /\ tpc' = [tpc EXCEPT ![t] = "cancel"]
  /\ UNCHANGED <<hasParent, parentErr, ctxErr, wg, errOnce, kind, retVal,
                 retErr, res, callerPc, waitRes, ran, launchedAt, claimer,
                 ctxCause, ctxWait, firedOnAll, firedAtRet>>

\* pg.cancel()
TaskCancel(t) ==
  /\ tpc[t] = "cancel"
  /\ ctxErr' = CancelCtx(ctxErr)
  /\ ctxCause' = IF ctxErr = Nil THEN "task" ELSE ctxCause
  /\ tpc' = [tpc EXCEPT ![t] = "leave"]
  /\ UNCHANGED <<hasParent, parentErr, wg, err, errOnce, kind, retVal, retErr,
                 res, callerPc, waitRes, ran, launchedAt, claimer, errWrites,
                 ctxWait, firedOnAll, firedAtRet>>

\* the closure returned: the Once is done; `return`
TaskLeaveOnce(t) ==
  /\ tpc[t] = "leave"
  /\ errOnce' = "done"
  /\ tpc' = [tpc EXCEPT ![t] = "exit"]
  /\ UNCHANGED <<hasParent, parentErr, ctxErr, wg, err, kind, retVal, retErr,
                 res, callerPc, waitRes, hist>>

\* a run closure that drops the result
StoreResLost(k, old, v) == old
\* The value a successful task leaves in its Promise: p.res = res for Go,
\* no Promise write for GoAndForget.
StoreRes(k, old, v) == IF k = "go" THEN v ELSE old

\* a closure that falls through to the Promise write after an error
SucceededAlways(e) == TRUE
\* the `if err != nil { ...; return }` test is passed
Succeeded(e) == e = Nil

\* a run closure that signals completion first and writes the Promise after
TaskSuccessDoneFirst(t) ==
  \/ /\ tpc[t] = "ret"
     /\ Succeeded(retErr[t])
     /\ wg' = WgDone(wg)
     /\ tpc' = [tpc EXCEPT ![t] = "late"]
     /\ UNCHANGED <<hasParent, parentErr, ctxErr, err, errOnce, kind, retVal,
                    retErr, res, callerPc, waitRes, hist>>
  \/ /\ tpc[t] = "late"
     /\ res' = [res EXCEPT ![t] = StoreRes(kind[t], res[t], retVal[t])]
     /\ tpc' = [tpc EXCEPT ![t] = "done"]
     /\ UNCHANGED <<hasParent, parentErr, ctxErr, wg, err, errOnce, kind,
                    retVal, retErr, callerPc, waitRes, hist>>

\* err == nil: p.res = res (Go), nothing (GoAndForget)
TaskSuccess(t) ==
  /\ tpc[t] = "ret"
  /\ Succeeded(retErr[t])
  /\ res' = [res EXCEPT ![t] = StoreRes(kind[t], res[t], retVal[t])]
  /\ tpc' = [tpc EXCEPT ![t] = "exit"]
  /\ UNCHANGED <<hasParent, parentErr, ctxErr, wg, err, errOnce, kind, retVal,
                 retErr, callerPc, waitRes, hist>>

\* defer pg.wg.Done()
TaskDone(t) ==
  /\ tpc[t] = "exit"
  /\ wg' = WgDone(wg)
  /\ tpc' = [tpc EXCEPT ![t] = "done"]
  /\ UNCHANGED <<hasParent, parentErr, ctxErr, err, errOnce, kind, retVal,
                 retErr, res, callerPc, waitRes, hist>>

TaskStep(t) ==
  \/ TaskReturn(t)
  \/ TaskEnterOnce(t)
  \/ TaskSkipOnce(t)
  \/ TaskSetErr(t)
  \/ TaskCancel(t)
  \/ TaskLeaveOnce(t)
  \/ TaskSuccess(t)
  \/ TaskDone(t)

\* -------------------------------------------------------------------- Wait
\* the caller calls pg.Wait() and blocks in pg.wg.Wait()
WaitCall ==
  /\ callerPc = "idle"
  /\ Len(waitRes) < MaxWaits
  /\ callerPc' = "wgWait"
  /\ UNCHANGED <<hasParent, parentErr, ctxErr, wg, err, errOnce, tpc, kind,
                 retVal, retErr, res, waitRes, hist>>

\* pg.wg.Wait() returns
WaitWgReturn ==
  /\ callerPc = "wgWait"
  /\ WgWaitReturns(wg)
  /\ callerPc' = "cancel"
  /\ UNCHANGED <<hasParent, parentErr, ctxErr, wg, err, errOnce, tpc, kind,
                 retVal, retErr, res, waitRes, hist>>

\* pg.cancel()
WaitCancel ==
  /\ callerPc = "cancel"
  /\ ctxErr' = CancelCtx(ctxErr)
  /\ ctxCause' = IF ctxErr = Nil THEN "wait" ELSE ctxCause
  /\ ctxWait' = IF ctxErr = Nil THEN Len(waitRes) + 1 ELSE ctxWait
  /\ callerPc' = "ret"
  /\ UNCHANGED <<hasParent, parentErr, wg, err, errOnce, tpc, kind, retVal,
                 retErr, res, waitRes, ran, launchedAt, claimer, errWrites,
                 firedOnAll, firedAtRet>>

\* a Wait that hands the error over and resets the group's slot
WaitReturnClearsErr ==
  /\ callerPc = "ret"
  /\ waitRes' = Append(waitRes, err)
  /\ err' = Nil
  /\ callerPc' = "idle"
  /\ UNCHANGED <<hasParent, parentErr, ctxErr, wg, errOnce, tpc, kind,
                 retVal, retErr, res, hist>>

\* return pg.err
WaitReturn ==
  /\ callerPc = "ret"
  /\ waitRes' = Append(waitRes, err)
  /\ callerPc' = "idle"
  /\ UNCHANGED <<hasParent, parentErr, ctxErr, wg, err, errOnce, tpc, kind,
                 retVal, retErr, res, hist>>

WaitStep == WaitWgReturn \/ WaitCancel \/ WaitReturn

\* -------------------------------------------------------------------- Next
Next ==
  \/ ParentFire
  \/ Propagate
  \/ Go
  \/ GoAndForget
  \/ \E t \in Tasks : TaskStep(t)
  \/ WaitCall
  \/ WaitStep

Spec == Init /\ [][Next]_vars

\* Every started goroutine is scheduled, the caller inside Wait is
\* scheduled, and the parent's cancellation reaches the child context.
FairSpec ==
  /\ Spec
  /\ \A t \in Tasks : WF_vars(TaskStep(t))
  /\ WF_vars(WaitStep)
  /\ WF_vars(Propagate)

TypeOK ==
  /\ wg \in 0..MaxTasks
  /\ errOnce \in {"fresh", "running", "done"}
  /\ callerPc \in {"idle", "wgWait", "cancel", "ret"}
  /\ Len(waitRes) <= MaxWaits

\* ------------------------------------------------------------ properties
\* the step on which a call of Wait returns
WaitReturns == callerPc = "ret" /\ callerPc' = "idle"
\* the step on which Wait calls pg.cancel()
WaitCancels == callerPc = "cancel" /\ callerPc' = "ret"
\* the tasks that returned an error of their own
Failed == {t \in Tasks : retErr[t] = TaskErr(t)}
\* the tasks that returned pg.ctx.Err()
Honoured == {t \in Tasks : retErr[t] \in CtxErrs}
\* the tasks that returned success although pg.ctx was done
Ignored == {t \in firedAtRet : retErr[t] = Nil}

\* C1: when Wait returns, the counter is 0 and every task launched so far
\* has run its wg.Done(); a failure or a cancellation removes no task from
\* the count.
C1_WaitIsBarrier ==
  [][WaitReturns => /\ wg' = 0
                    /\ \A t \in Tasks : tpc'[t] \in {"idle", "done"}]_vars

\* C1 witness: a task launched after a sibling had failed (the first Wait
\* had already returned that error) saw the context done and still ran to
\* success, and the second Wait returned after it.
C1_Witness ==
  /\ Len(waitRes) >= 2
  /\ waitRes[1] # Nil
  /\ \E t \in Ignored : launchedAt[t] = 1 /\ tpc[t] = "done"

\* C2: the error Wait returns is the error returned by the task that first
\* claimed errOnce, unmodified, and never the own error of any other task.
C2_FirstErrorWins ==
  [][WaitReturns =>
       LET r == Last(waitRes') IN
         /\ r = IF claimer = 0 THEN Nil ELSE retErr[claimer]
         /\ \A t \in Tasks : t # claimer => r # TaskErr(t)]_vars

\* C2 witness: the second task won the claim, the first task failed too,
\* and Wait returned the second task's error.
C2_Witness ==
  /\ Len(waitRes) >= 1
  /\ claimer = 2
  /\ retErr[1] = TaskErr(1)
  /\ waitRes[1] = TaskErr(2)

\* C3: Wait returns nil exactly when no task returned a non-nil error, and
\* by then the body of every launched task has been executed exactly once.
C3_NilIffNoError ==
  [][WaitReturns =>
       /\ (Last(waitRes') = Nil) <=> (\A t \in Tasks : retErr[t] = Nil)
       /\ \A t \in Launched : ran[t] = 1]_vars

\* C3 witness: all tasks were fire-and-forget tasks that succeeded, and
\* Wait returned nil.
C3_Witness ==
  /\ Len(waitRes) >= 1
  /\ waitRes[1] = Nil
  /\ \A t \in Tasks : /\ kind[t] = "forget"
                       /\ launchedAt[t] = 0
                       /\ tpc[t] = "done"
                       /\ retErr[t] = Nil
                       /\ ran[t] = 1

\* C4: after a Wait call that returned nil, Get on the Promise of every Go
\* task launched before that return yields the value the task returned.
C4_GetAfterNilWait ==
  \A t \in Tasks :
    kind[t] = "go" =>
      \A i \in (launchedAt[t] + 1)..Len(waitRes) :
        waitRes[i] = Nil => Get(t) = retVal[t]

\* C4 witness: Wait returned nil with every task a result task, one of
\* them returning a non-zero value.
C4_Witness ==
  /\ Len(waitRes) >= 1
  /\ waitRes[1] = Nil
  /\ \A t \in Tasks : kind[t] = "go" /\ launchedAt[t] = 0
  /\ Get(1) = MaxVal
  /\ Get(2) = ZeroValue
  /\ retVal[1] = MaxVal

\* C5: pg.err is assigned at most once; once non-nil it never changes.
C5_ErrWrittenOnce ==
  [][/\ err # Nil => err' = err
     /\ errWrites' <= 1]_vars

\* C5 witness: two tasks failed before the context was done, the winner
\* and Wait both called cancel, and the stored error is the winner's.
C5_Witness ==
  /\ Len(waitRes) >= 1
  /\ Failed = {1, 2}
  /\ firedAtRet = {}
  /\ errWrites = 1
  /\ err = TaskErr(claimer)

\* C6: the context handed to the tasks is done once the task that won the
\* claim has left errOnce.Do, and it becomes done whenever the parent has
\* fired or a task has won the claim.
C6_SignalFires ==
  /\ [](errOnce = "done" => ctxErr # Nil)
  /\ ((parentErr # Nil \/ claimer # 0) ~> (ctxErr # Nil))

\* C6 witness: the parent fired while a task was running and no task had
\* failed, and the group's context is done with the parent's error.
C6_Witness ==
  /\ hasParent
  /\ firedOnAll
  /\ claimer = 0
  /\ ctxCause = "parent"
  /\ ctxErr = parentErr
  /\ \E t \in Tasks : tpc[t] = "run"

\* C7: on a fresh group, when the parent's deadline fired while all tasks
\* were running and every task returned the context's error, the first Wait
\* returns DeadlineExceeded.
C7_ParentDeadline ==
  ( /\ Len(waitRes) >= 1
    /\ firedOnAll
    /\ parentErr = DeadlineExceeded
    /\ \A t \in Launched : launchedAt[t] = 0 /\ t \in Honoured )
  => waitRes[1] = DeadlineExceeded

\* C7 witness: the deadline fired with both tasks running, both returned
\* the context's error and Wait returned DeadlineExceeded.
C7_Witness ==
  /\ Len(waitRes) >= 1
  /\ firedOnAll
  /\ parentErr = DeadlineExceeded
  /\ Launched = Tasks
  /\ \A t \in Tasks : launchedAt[t] = 0 /\ t \in Honoured
  /\ waitRes[1] = DeadlineExceeded

\* C8: the parent's firing and its propagation leave pg.err unchanged; Wait
\* returns nil when every task returned success, and a cancellation error
\* returned by Wait is the error returned by the task that won the claim.
C8_ParentLeavesErr ==
  [][/\ (parentErr' # parentErr \/ (ctxCause = "none" /\ ctxCause' = "parent"))
        => err' = err
     /\ WaitReturns =>
          /\ (\A t \in Tasks : retErr[t] = Nil) => Last(waitRes') = Nil
          /\ Last(waitRes') \in CtxErrs =>
                claimer # 0 /\ claimer \in Honoured
                            /\ retErr[claimer] = Last(waitRes')]_vars

\* C8 witness: the parent fired, every task saw the context done, returned
\* success all the same, and Wait returned nil.
C8_Witness ==
  /\ Len(waitRes) >= 1
  /\ waitRes[1] = Nil
  /\ ctxCause = "parent"
  /\ Launched = Tasks
  /\ Ignored = Tasks
  /\ \A t \in Tasks : launchedAt[t] = 0

\* C9: when Wait returns the group's context is done; Wait calls cancel
\* only with the counter at 0 and every launched task completed; and a task
\* that returned the context's error while the context had been closed by
\* the cancel of the k-th Wait was launched after k Wait calls had returned.
C9_CleanupCancel ==
  [][/\ WaitReturns => ctxErr' # Nil
     /\ WaitCancels => /\ wg = 0
                        /\ \A t \in Tasks : tpc[t] \in {"idle", "done"}
     /\ \A t \in Tasks :
          (retErr'[t] \in CtxErrs /\ ctxCause' = "wait")
            => launchedAt'[t] >= ctxWait']_vars

\* C9 witness: every task succeeded, Wait returned nil, and the context was
\* closed by Wait's own cancel.
C9_Witness ==
  /\ Len(waitRes) >= 1
  /\ waitRes[1] = Nil
  /\ Launched = Tasks
  /\ \A t \in Tasks : launchedAt[t] = 0
  /\ ctxCause = "wait"
  /\ ctxWait = 1
  /\ ctxErr = Canceled

\* C10: when every started goroutine keeps being scheduled, a caller blocked
\* in Wait eventually returns from it.
C10_WaitReturns ==
  (callerPc = "wgWait") ~> (callerPc = "idle")

\* C10 witness: two tasks failed at once (neither saw the context done),
\* the loser waited for errOnce, cancel was called by the winner and by
\* Wait, and Wait has returned.
C10_Witness ==
  /\ Len(waitRes) >= 1
  /\ Failed = Tasks
  /\ firedAtRet = {}
  /\ \A t \in Tasks : launchedAt[t] = 0
  /\ ctxCause = "task"
  /\ waitRes[1] = TaskErr(claimer)

\* the steps on which a task or Wait calls pg.cancel()
CancelCalled ==
  \/ WaitCancels
  \/ \E t \in Tasks : tpc[t] = "cancel" /\ tpc'[t] = "leave"
\* no task was launched since the last return of Wait
NoLaunchSinceWait == \A t \in Launched : launchedAt[t] < Len(waitRes)

\* C11: once pg.ctx is done it stays done with the same Err, whoever closed
\* it, and a call of cancel on a done context changes nothing of the group.
C11_SignalMonotonic ==
  [][/\ ctxErr # Nil => ctxErr' = ctxErr
     /\ (CancelCalled /\ ctxErr # Nil) =>
          <<ctxErr, err, errOnce, wg, res>>' = <<ctxErr, err, errOnce, wg, res>>
    ]_vars

\* C11 witness: the parent's deadline closed pg.ctx, then the winning task
\* and Wait each called cancel, and pg.ctx still reports DeadlineExceeded.
C11_Witness ==
  /\ ctxCause = "parent"
  /\ ctxErr = DeadlineExceeded
  /\ errOnce = "done"
  /\ Len(waitRes) >= 1

\* C12: a Wait called again with no task launched in between does not
\* block (the counter is 0 while it is inside wg.Wait), returns what the
\* previous call returned, and no step of Wait changes pg.err or a Promise.
C12_WaitAgain ==
  [][/\ (callerPc = "wgWait" /\ Len(waitRes) >= 1 /\ NoLaunchSinceWait)
          => WgWaitReturns(wg)
     /\ (WaitReturns /\ Len(waitRes) >= 1 /\ NoLaunchSinceWait)
          => Last(waitRes') = Last(waitRes)
     /\ callerPc' # callerPc => (err' = err /\ res' = res)]_vars

\* C12 witness: two Wait calls in a row returned the same error, and a
\* Promise written before the first still holds its value.
C12_Witness ==
  /\ Len(waitRes) = 2
  /\ NoLaunchSinceWait
  /\ \A t \in Launched : launchedAt[t] = 0
  /\ waitRes[1] # Nil
  /\ waitRes[2] = waitRes[1]
  /\ \E t \in Tasks : kind[t] = "go" /\ Get(t) = MaxVal

\* C13: the counter is never negative and equals the number of launched
\* tasks minus the number of tasks that have run wg.Done(), whatever the
\* outcome of the task.
C13_CounterExact ==
  /\ wg >= 0
  /\ wg = Cardinality(Launched) - Cardinality({t \in Tasks : tpc[t] = "done"})

\* C13 witness: one task won the claim, the other failed and lost it, both
\* have completed and the counter is back at 0.
C13_Witness ==
  /\ wg = 0
  /\ \A t \in Tasks : tpc[t] = "done" /\ retErr[t] # Nil
  /\ claimer # 0

\* C14: a task that returned an error runs wg.Done() only when pg.err is
\* set and pg.ctx is done, whether it won or lost the claim; and the cancel
\* inside errOnce.Do is called by the one task that claimed errOnce.
C14_StoreAndCancelTogether ==
  [][/\ \A t \in Tasks :
          (tpc[t] = "exit" /\ tpc'[t] = "done" /\ retErr[t] # Nil)
            => (err # Nil /\ ctxErr # Nil)
     /\ \A t \in Tasks :
          (tpc[t] = "cancel" /\ tpc'[t] = "leave") => t = claimer]_vars

\* C14 witness: a task that lost the claim is about to run wg.Done(); the
\* winner's error is stored and the context is done.
C14_Witness ==
  \E t \in Tasks :
    /\ tpc[t] = "exit"
    /\ retErr[t] # Nil
    /\ claimer \notin {0, t}
    /\ err = retErr[claimer]
    /\ ctxErr # Nil

\* C15: a successful Go task has written its Promise when it runs
\* wg.Done(); whenever the counter is 0 every launched task has completed;
\* and while the counter stays 0 with no new launch no Promise changes.
C15_WriteBeforeDone ==
  [][/\ \A t \in Tasks :
          (wg' < wg /\ tpc'[t] # tpc[t] /\ kind[t] = "go" /\ retErr[t] = Nil)
            => Get(t) = retVal[t]
     /\ wg' = 0 => \A t \in Tasks : tpc'[t] \in {"idle", "done"}
     /\ (wg = 0 /\ \A t \in Tasks : tpc'[t] = "idle" <=> tpc[t] = "idle")
          => res' = res]_vars

\* C15 witness: a Go task wrote a non-zero value and has not yet run
\* wg.Done(), while the caller is blocked in Wait.
C15_Witness ==
  \E t \in Tasks :
    /\ kind[t] = "go"
    /\ tpc[t] = "exit"
    /\ retErr[t] = Nil
    /\ Get(t) = MaxVal
    /\ wg >= 1
    /\ callerPc = "wgWait"

\* C16: a Promise changes only on the success step of its own Go task and
\* then holds the value that task returned; the Promise of a task that
\* returned an error, with whatever value, holds the zero value.
C16_PromiseOwnTaskOnly ==
  [][/\ \A t \in Tasks :
          res'[t] # res[t] =>
            /\ tpc[t] = "ret" /\ tpc'[t] = "exit"
            /\ kind[t] = "go"
            /\ retErr[t] = Nil
            /\ res'[t] = retVal[t]
     /\ \A t \in Tasks : retErr'[t] # Nil => res'[t] = ZeroValue]_vars

\* C16 witness: a Go task returned a non-zero value together with an
\* error; it has completed and its Promise holds the zero value, while a
\* sibling's Promise holds its result.
C16_Witness ==
  \E t, u \in Tasks :
    /\ kind[t] = "go" /\ kind[u] = "go"
    /\ retErr[t] = TaskErr(t) /\ retVal[t] = MaxVal
    /\ tpc[t] = "done"
    /\ Get(t) = ZeroValue
    /\ Get(u) = MaxVal

\* the tasks launched before the first return of Wait that returned an error
FirstRoundErrs == {t \in Tasks : launchedAt[t] = 0 /\ retErr[t] # Nil}

\* C17: when two or more tasks returned errors of their own, the first Wait
\* returns the error of exactly one of them, the one that claimed errOnce,
\* whatever its place in the launch order.
C17_ClaimOrderDecides ==
  ( /\ Len(waitRes) >= 1
    /\ Cardinality(FirstRoundErrs) >= 2
    /\ FirstRoundErrs \subseteq Failed )
  => /\ claimer \in FirstRoundErrs
     /\ waitRes[1] = TaskErr(claimer)
     /\ Cardinality({t \in FirstRoundErrs : TaskErr(t) = waitRes[1]}) = 1

\* C17 witness: both tasks failed before the context was done and Wait
\* returned the error of the task launched second.
C17_Witness ==
  /\ Len(waitRes) >= 1
  /\ FirstRoundErrs = {1, 2}
  /\ Failed = {1, 2}
  /\ firedAtRet = {}
  /\ waitRes[1] = TaskErr(2)
  /\ err = TaskErr(2)

\* C17, the other outcome: in the same situation Wait returned the error
\* of the task launched first.
C17_WitnessFirstLaunched ==
  /\ Len(waitRes) >= 1
  /\ FirstRoundErrs = {1, 2}
  /\ Failed = {1, 2}
  /\ firedAtRet = {}
  /\ waitRes[1] = TaskErr(1)
  /\ err = TaskErr(1)

\* C18: while pg.ctx was not closed by Wait's own cancel, a done pg.ctx
\* with a parent that has not fired means errOnce was claimed and pg.err is
\* set; and when a task's cancel closed pg.ctx, the stored error is the
\* winner's own error, never a sibling's cancellation error.
C18_FiredMeansClaimed ==
  /\ (ctxCause # "wait" /\ ctxErr # Nil /\ parentErr = Nil)
       => (claimer # 0 /\ err # Nil)
  /\ ctxCause = "task" => (err = TaskErr(claimer) /\ claimer \notin Honoured)

\* C18 witness: a task failed and cancelled the group, a sibling returned
\* the resulting context.Canceled, the parent never fired, and Wait
\* returned the first task's own error.
C18_Witness ==
  /\ hasParent
  /\ parentErr = Nil
  /\ ctxCause = "task"
  /\ \E t \in Honoured : tpc[t] = "done" /\ retErr[t] = Canceled
  /\ Len(waitRes) >= 1
  /\ waitRes[1] = TaskErr(claimer)

\* C19: from wg.Wait() returning until Wait returns, pg.err does not
\* change and no task is about to assign it; Wait returns the stored
\* error; and the winner's wg.Done() comes after its assignment to pg.err.
C19_ErrReadNoRace ==
  [][/\ callerPc \in {"cancel", "ret"} =>
          /\ err' = err
          /\ \A t \in Tasks : tpc[t] # "setErr" /\ tpc'[t] # "setErr"
     /\ WaitReturns => Last(waitRes') = err'
     /\ \A t \in Tasks :
          (tpc[t] = "exit" /\ tpc'[t] = "done" /\ t = claimer)
            => err = retErr[t]]_vars

\* C19 witness: wg.Wait() has returned, Wait is about to read pg.err, and
\* the winner's error is in place.
C19_Witness ==
  /\ callerPc = "ret"
  /\ claimer # 0
  /\ tpc[claimer] = "done"
  /\ err = retErr[claimer]
  /\ Len(waitRes) = 0

\* C20: a task launched after a return of Wait is counted, is handed a
\* context that is done and stays done, claims errOnce with its error when
\* errOnce is still fresh, and the next Wait then returns a non-nil error.
C20_ReuseAfterWait ==
  [][/\ \A t \in Tasks :
          (tpc[t] = "idle" /\ tpc'[t] = "run" /\ Len(waitRes) >= 1)
            => (wg' = wg + 1 /\ ctxErr # Nil)
     /\ \A t \in Tasks :
          (launchedAt'[t] >= 1 /\ tpc'[t] # "idle") => ctxErr' # Nil
     /\ \A t \in Tasks :
          ( /\ launchedAt[t] >= 1 /\ retErr[t] # Nil
            /\ tpc[t] = "ret" /\ tpc'[t] # "ret" /\ errOnce = "fresh" )
            => (claimer' = t /\ errOnce' = "running")
     /\ ( /\ WaitReturns
          /\ \E t \in Tasks : launchedAt[t] = Len(waitRes) /\ retErr[t] # Nil )
          => Last(waitRes') # Nil]_vars

\* C20 witness: the first Wait returned nil, a task launched afterwards
\* returned the context's error, and the second Wait returned that error.
C20_Witness ==
  /\ Len(waitRes) = 2
  /\ waitRes[1] = Nil
  /\ waitRes[2] = Canceled
  /\ claimer # 0
  /\ launchedAt[claimer] = 1

====
